---- MODULE Spec2Model ----
(***************************************************************************)
(* Event index, transaction lookup and retention of soroban-rpc.          *)
(*                                                                         *)
(* The tables (ledgers, events, transactions) are the state.  The ingest  *)
(* of one ledger-close-meta (LCM) is one write transaction; the trims and  *)
(* the readers (GetEvents, GetTransaction) are separate operations.       *)
(***************************************************************************)
EXTENDS Integers, Sequences, FiniteSets, TLC

\* ------------------------------------------------------------------ bounds
\* Highest ledger sequence the ingestion task is fed.
MaxLedger == 3
\* Largest retention window the process is configured with.
MaxWindow == 2

\* --------------------------------------------------------------- constants
NoErr == "nil"
NULL == "NULL"
\* A 32-byte xdr.Hash
HashBytes == 32

\* --------------------------------------------------------- ledger contents
Contracts == {"c1", "c2"}

ContractEventTypeContract == 1
ContractEventTypeDiagnostic == 2

Event(c, t) == [contractId |-> c, type |-> t]

\* The transactions of the ledgers fed to the service, in apply order: each
\* is (successful, diagnostic events).
TxShape(ok, evs) == [successful |-> ok, events |-> evs]

LcmShapes ==
  { <<>>,
    << TxShape(TRUE, << Event("c1", ContractEventTypeContract) >>),
       TxShape(TRUE, << Event(NULL, ContractEventTypeDiagnostic) >>) >>,
    << TxShape(TRUE, << Event("c1", ContractEventTypeContract),
                        Event("c2", ContractEventTypeContract) >>),
       TxShape(FALSE, << Event("c1", ContractEventTypeDiagnostic) >>),
       TxShape(TRUE, <<>>) >> }

\* The largest number of transactions of a ledger.
MaxTxs == CHOOSE n \in 0..8 : /\ \A s \in LcmShapes : Len(s) <= n
                              /\ \E s \in LcmShapes : Len(s) = n

ledgerCloseTime(ledgerSequence) == ledgerSequence * 25 + 100

\* The account sequence number of the envelope applied at position i of
\* ledger seq: every transaction has its own envelope.
acctSeq(seq, i) == (seq - 1) * MaxTxs + i

txEnvelope(a) == [SeqNum |-> a, feeBump |-> FALSE]

\* network.HashTransactionInEnvelope: a deterministic 32-byte digest of the
\* envelope, distinct for distinct envelopes.  The tables hold a digest by
\* its first byte; HashBytesOf gives the 32 bytes.
txHash(a) == 16 + a

RECURSIVE Repeat(_, _)
Repeat(x, n) == IF n = 0 THEN << >> ELSE << x >> \o Repeat(x, n - 1)

ZeroTail == Repeat(0, HashBytes - 1)

HashBytesOf(h) == << h >> \o ZeroTail

transactionResult(successful) ==
  [FeeCharged |-> 100,
   Code |-> IF successful THEN "txSUCCESS" ELSE "txBAD_SEQ"]

\* xdr.TransactionResultPair.Successful
Successful(result) == result.Code \in {"txSUCCESS", "txFEE_BUMP_INNER_SUCCESS"}

txMeta(seq, shape) ==
  [sequence |-> seq,
   closeTime |-> ledgerCloseTime(seq),
   txs |-> [i \in 1..Len(shape) |->
              [envelope |-> txEnvelope(acctSeq(seq, i)),
               hash |-> txHash(acctSeq(seq, i)),
               result |-> transactionResult(shape[i].successful),
               events |-> shape[i].events]]]

CountTransactions(lcm) == Len(lcm.txs)

\* ------------------------------------------------------------------- state
VARIABLES
  ledgers,          \* table ledgers: sequence -> LCM
  events,           \* table events: rows in insertion order
  transactions,     \* table transactions: set of rows, hash is the key
  latestLedger,     \* meta.latest, 0 while nothing was ingested
  retentionWindow,  \* process configuration
  pendingTrim,      \* tables the trim after the last commit has not reached yet
  lastIngest,       \* outcome of the last ingest transaction
  scan,             \* the GetEvents call in progress or last finished
  resp,             \* the last GetTransaction request and its response
  migration,        \* the event-table migration of the start-up
  ctx,              \* the context of the GetEvents call
  handlerCall       \* the last InsertEvents call on a handler of its own

vars == << ledgers, events, transactions, latestLedger, retentionWindow,
           pendingTrim, lastIngest, scan, resp, migration, ctx, handlerCall >>

storeVars == << ledgers, events, transactions, latestLedger, retentionWindow,
                pendingTrim, lastIngest, migration >>

callVars == << ctx, handlerCall >>

Tables == {"events", "transactions", "ledgers"}

\* ------------------------------------------------------------ InsertEvents
EventRow(seq, txIndex, e) ==
  [ledger_sequence |-> seq,
   application_order |-> txIndex,
   contract_id |-> e.contractId,
   event_type |-> e.type]

\* An insert statement that carries the values of the first event only.
InsertQueryFirstEvent(lcm, txIndex) ==
  << EventRow(lcm.sequence, txIndex, lcm.txs[txIndex].events[1]) >>

\* The rows of one insert statement: one Values() per diagnostic event.
InsertQuery(lcm, txIndex) ==
  [k \in 1..Len(lcm.txs[txIndex].events) |->
     EventRow(lcm.sequence, txIndex, lcm.txs[txIndex].events[k])]

\* The session the insert statement runs with.
RunWithDb(eventHandler) == eventHandler.db
RunWith(eventHandler) == eventHandler.stmtCache

\* The loop with one insert statement executed per event.
RECURSIVE InsertEventsLoopPerEvent(_, _, _, _, _, _)
InsertEventsLoopPerEvent(eventHandler, lcm, i, rows, execs, failAt) ==
  IF i > Len(lcm.txs)
  THEN [err |-> NoErr, rows |-> rows, execs |-> execs, via |-> RunWith(eventHandler)]
  ELSE IF ~Successful(lcm.txs[i].result)
  THEN InsertEventsLoopPerEvent(eventHandler, lcm, i + 1, rows, execs, failAt)
  ELSE IF Len(lcm.txs[i].events) = 0
  THEN InsertEventsLoopPerEvent(eventHandler, lcm, i + 1, rows, execs, failAt)
  ELSE IF execs + 1 = failAt
  THEN [err |-> "exec", rows |-> rows, execs |-> execs + 1, via |-> RunWith(eventHandler)]
  ELSE InsertEventsLoopPerEvent(eventHandler, lcm, i + 1,
                                rows \o InsertQuery(lcm, i),
                                execs + Len(lcm.txs[i].events), failAt)

\* The loop over txReader.Read(): i is the next transaction, rows the rows
\* the executed statements wrote, execs the number of statements executed,
\* failAt the statement whose Exec returns an error (0: none does).
RECURSIVE InsertEventsLoop(_, _, _, _, _, _)
InsertEventsLoop(eventHandler, lcm, i, rows, execs, failAt) ==
  IF i > Len(lcm.txs)
  THEN [err |-> NoErr, rows |-> rows, execs |-> execs, via |-> RunWith(eventHandler)]
  ELSE IF ~Successful(lcm.txs[i].result)
  THEN InsertEventsLoop(eventHandler, lcm, i + 1, rows, execs, failAt)
  ELSE IF Len(lcm.txs[i].events) = 0
  THEN InsertEventsLoop(eventHandler, lcm, i + 1, rows, execs, failAt)
  ELSE IF execs + 1 = failAt
  THEN [err |-> "exec", rows |-> rows, execs |-> execs + 1, via |-> RunWith(eventHandler)]
  ELSE InsertEventsLoop(eventHandler, lcm, i + 1,
                        rows \o InsertQuery(lcm, i), execs + 1, failAt)

\* InsertEvents with the two early returns in the other order: an LCM
\* without transactions returns nil before the statement cache is looked at.
InsertEventsCountFirst(eventHandler, lcm, failAt) ==
  IF CountTransactions(lcm) = 0
  THEN [err |-> NoErr, rows |-> <<>>, execs |-> 0, via |-> NULL]
  ELSE IF eventHandler.stmtCache = NULL
  THEN [err |-> "EventWriter incorrectly initialized without stmtCache",
        rows |-> <<>>, execs |-> 0, via |-> NULL]
  ELSE InsertEventsLoop(eventHandler, lcm, 1, <<>>, 0, failAt)

InsertEvents(eventHandler, lcm, failAt) ==
  IF eventHandler.stmtCache = NULL
  THEN [err |-> "EventWriter incorrectly initialized without stmtCache",
        rows |-> <<>>, execs |-> 0, via |-> NULL]
  ELSE IF CountTransactions(lcm) = 0
  THEN [err |-> NoErr, rows |-> <<>>, execs |-> 0, via |-> NULL]
  ELSE InsertEventsLoop(eventHandler, lcm, 1, <<>>, 0, failAt)

\* ------------------------------------------------------ InsertTransactions
\* InsertTransactions with the filter of the event index: failed
\* transactions are left out.
InsertTransactionsSuccessfulOnly(lcm) ==
  { [hash |-> lcm.txs[i].hash,
     ledger_sequence |-> lcm.sequence,
     application_order |-> i] :
    i \in { j \in 1..Len(lcm.txs) : Successful(lcm.txs[j].result) } }

InsertTransactions(lcm) ==
  { [hash |-> lcm.txs[i].hash,
     ledger_sequence |-> lcm.sequence,
     application_order |-> i] : i \in 1..Len(lcm.txs) }

\* ------------------------------------------------------------------ ingest
\* The writer of the ingest transaction: its statement cache is bound to
\* the transaction, its db is the session.
IngestWriter == [stmtCache |-> "tx", db |-> "db"]

IngestSteps == {"InsertLedger", "InsertTransactions", "InsertEvents", "Commit"}

\* One reader call (GetEvents or GetTransaction) is followed per behaviour,
\* begun in any state of the writer: it reads the tables in a single query,
\* so nothing written after the query can reach it, and the writer's steps
\* are followed up to that query only.
NoResp == [hash |-> << >>]

NoReaderYet == scan.pc = "idle" /\ resp = NoResp

\* One ingest transaction of ledger latestLedger + 1.  failStep is the step
\* that fails ("none": no step does), failAt the insert statement of
\* InsertEvents that fails when failStep is InsertEvents.
Ingest(shape, failStep, failAt) ==
  LET seq == latestLedger + 1
      lcm == txMeta(seq, shape)
      ev == InsertEvents(IngestWriter, lcm,
                         IF failStep = "InsertEvents" THEN failAt ELSE 0)
      reached == failStep \in {"none", "InsertEvents", "Commit"}
      \* rows written outside the transaction stay whatever happens to it
      direct == IF reached /\ ev.via = "db" THEN ev.rows ELSE <<>>
      inTx == IF ev.via = "tx" THEN ev.rows ELSE <<>>
      failed == failStep \in {"InsertLedger", "InsertTransactions", "Commit"}
                \/ ev.err /= NoErr
  IN  /\ pendingTrim = {}
      /\ NoReaderYet
      /\ latestLedger < MaxLedger
      /\ failStep = "InsertEvents" => ev.err /= NoErr
      /\ failStep /= "InsertEvents" => failAt = 0
      /\ IF failed
         THEN \* Rollback
              /\ events' = events \o direct
              /\ UNCHANGED << ledgers, transactions, latestLedger, pendingTrim >>
         ELSE \* Commit
              /\ ledgers' = [s \in DOMAIN ledgers \cup {seq} |->
                               IF s = seq THEN lcm ELSE ledgers[s]]
              /\ transactions' = transactions \cup InsertTransactions(lcm)
              /\ events' = events \o direct \o inTx
              /\ latestLedger' = seq
              /\ pendingTrim' = Tables
      /\ lastIngest' = [seq |-> seq, failed |-> failed,
                        execs |-> IF reached THEN ev.execs ELSE 0]
      /\ UNCHANGED << retentionWindow, scan, resp, migration, callVars >>

IngestLedger ==
  \E shape \in LcmShapes, failStep \in IngestSteps \cup {"none"}, failAt \in 0..MaxTxs :
    Ingest(shape, failStep, failAt)

\* -------------------------------------------------------------------- trim
\* trimEvents with the cutoff row deleted too.
trimEventsAtCutoff(rows, latestLedgerSeq, window) ==
  IF latestLedgerSeq + 1 <= window
  THEN rows
  ELSE LET cutoff == latestLedgerSeq + 1 - window
       IN  SelectSeq(rows, LAMBDA r : ~(r.ledger_sequence <= cutoff))

\* trimEvents: the events table after the call.
trimEvents(rows, latestLedgerSeq, window) ==
  IF latestLedgerSeq + 1 <= window
  THEN rows
  ELSE LET cutoff == latestLedgerSeq + 1 - window
       IN  SelectSeq(rows, LAMBDA r : ~(r.ledger_sequence < cutoff))

TrimEvents ==
  /\ "events" \in pendingTrim
  /\ NoReaderYet
  /\ events' = trimEvents(events, latestLedger, retentionWindow)
  /\ pendingTrim' = pendingTrim \ {"events"}
  /\ UNCHANGED << ledgers, transactions, latestLedger, retentionWindow,
                  lastIngest, scan, resp, migration, callVars >>

\* The cutoff the retention trimmer applies to every table.
Cutoff == IF latestLedger + 1 > retentionWindow
          THEN latestLedger + 1 - retentionWindow
          ELSE 0

TrimTransactions ==
  /\ "transactions" \in pendingTrim
  /\ NoReaderYet
  /\ transactions' = { t \in transactions : t.ledger_sequence >= Cutoff }
  /\ pendingTrim' = pendingTrim \ {"transactions"}
  /\ UNCHANGED << ledgers, events, latestLedger, retentionWindow,
                  lastIngest, scan, resp, migration, callVars >>

TrimLedgers ==
  /\ "ledgers" \in pendingTrim
  /\ NoReaderYet
  /\ ledgers' = [s \in { x \in DOMAIN ledgers : x >= Cutoff } |-> ledgers[s]]
  /\ pendingTrim' = pendingTrim \ {"ledgers"}
  /\ UNCHANGED << events, transactions, latestLedger, retentionWindow,
                  lastIngest, scan, resp, migration, callVars >>

\* --------------------------------------------------------------- GetEvents
Cursor(l, t, e) == [Ledger |-> l, Tx |-> t, Event |-> e]

CursorRange(start, end) == [Start |-> start, End |-> end]

\* The WHERE clauses of rowQ (with the JOIN on the ledgers table): the
\* positions of the events rows the query returns.
RowMatches(r, cursorRange, contractIDs) ==
  /\ r.ledger_sequence \in DOMAIN ledgers
  /\ r.ledger_sequence >= cursorRange.Start.Ledger
  /\ r.application_order >= cursorRange.Start.Tx
  /\ r.ledger_sequence < cursorRange.End.Ledger
  /\ contractIDs /= {} => r.contract_id \in contractIDs

MatchingRows(cursorRange, contractIDs) ==
  { i \in 1..Len(events) : RowMatches(events[i], cursorRange, contractIDs) }

Perms(S) ==
  { p \in [1..Cardinality(S) -> S] : \A a, b \in 1..Cardinality(S) : p[a] = p[b] => a = b }

\* ORDER BY e.ledger_sequence ASC: the query fixes no order among the rows
\* of one ledger, so every order of them is a possible result.
LedgerOrders(idxs, s) ==
  LET own == { i \in idxs : events[i].ledger_sequence = s }
  IN  { [k \in 1..Cardinality(own) |->
           [TxIndex |-> events[p[k]].application_order, Lcm |-> ledgers[s]]] :
        p \in Perms(own) }

RECURSIVE ResultOrders(_, _)
ResultOrders(idxs, s) ==
  IF s > latestLedger
  THEN { << >> }
  ELSE { a \o b : a \in LedgerOrders(idxs, s), b \in ResultOrders(idxs, s + 1) }

SelectRows(cursorRange, contractIDs) ==
  ResultOrders(MatchingRows(cursorRange, contractIDs), 1)

\* ledgerTx.GetDiagnosticEvents() of the transaction reader.Seek found
GetDiagnosticEvents(row) == row.Lcm.txs[row.TxIndex].events

\* The position of the next call of f from (row r, event e) on, in the two
\* nested loops; r > Len(rows) when the loops are over.
RECURSIVE NextVisit(_, _, _)
NextVisit(rows, r, e) ==
  IF r > Len(rows) THEN [row |-> r, event |-> 0]
  ELSE IF e < Len(GetDiagnosticEvents(rows[r])) THEN [row |-> r, event |-> e]
  ELSE NextVisit(rows, r + 1, 0)

ScanDone(s, err) ==
  [pc |-> "done", cursorRange |-> s.cursorRange, contractIDs |-> s.contractIDs,
   rows |-> << >>, row |-> 0, event |-> 0, visited |-> s.visited, err |-> err]

\* GetEvents with the index looked up first and the LCM of each row fetched
\* afterwards: a row whose LCM is gone fails the call.
GetEventsSelectFetchLcm(cursorRange, contractIDs, dbErr) ==
  LET s0 == [cursorRange |-> cursorRange, contractIDs |-> contractIDs,
             visited |-> << >>]
      gone == { i \in 1..Len(events) :
                  /\ events[i].ledger_sequence \notin DOMAIN ledgers
                  /\ events[i].ledger_sequence >= cursorRange.Start.Ledger
                  /\ events[i].application_order >= cursorRange.Start.Tx
                  /\ events[i].ledger_sequence < cursorRange.End.Ledger
                  /\ contractIDs /= {} => events[i].contract_id \in contractIDs }
  IN  /\ NoReaderYet
      /\ IF dbErr
         THEN scan' = ScanDone(s0, "db read failed")
         ELSE IF gone /= {}
         THEN scan' = ScanDone(s0, "failed to fetch LCM")
         ELSE \E rows \in SelectRows(cursorRange, contractIDs) :
                LET first == NextVisit(rows, 1, 0)
                IN  IF Len(rows) < 1 \/ first.row > Len(rows)
                    THEN scan' = ScanDone(s0, NoErr)
                    ELSE scan' = [pc |-> "scanning", cursorRange |-> cursorRange,
                                  contractIDs |-> contractIDs, rows |-> rows,
                                  row |-> first.row, event |-> first.event,
                                  visited |-> << >>, err |-> NoErr]
      /\ UNCHANGED << storeVars, resp, callVars >>

\* GetEvents up to the first call of f: the query and the empty-result return.
GetEventsSelect(cursorRange, contractIDs, dbErr) ==
  LET s0 == [cursorRange |-> cursorRange, contractIDs |-> contractIDs,
             visited |-> << >>]
  IN  /\ NoReaderYet
      /\ IF dbErr
         THEN scan' = ScanDone(s0, "db read failed")
         ELSE \E rows \in SelectRows(cursorRange, contractIDs) :
                LET first == NextVisit(rows, 1, 0)
                IN  IF Len(rows) < 1 \/ first.row > Len(rows)
                    THEN scan' = ScanDone(s0, NoErr)
                    ELSE scan' = [pc |-> "scanning", cursorRange |-> cursorRange,
                                  contractIDs |-> contractIDs, rows |-> rows,
                                  row |-> first.row, event |-> first.event,
                                  visited |-> << >>, err |-> NoErr]
      /\ UNCHANGED << storeVars, resp, callVars >>

\* What GetEvents does when f returned false.
StopBreak(s, call) == [s EXCEPT !.visited = Append(s.visited, call),
                                !.row = NextVisit(s.rows, s.row + 1, 0).row,
                                !.event = 0]
Stop(s, call) == ScanDone([s EXCEPT !.visited = Append(s.visited, call)], NoErr)

\* One call of f, on the event at the current position, and what the loops
\* do with its result.
Visit(s, ret) ==
  LET row == s.rows[s.row]
      cur == Cursor(row.Lcm.sequence, row.TxIndex, s.event)
      call == [cursor |-> cur,
               contractId |-> GetDiagnosticEvents(row)[s.event + 1].contractId,
               ledgerCloseTime |-> row.Lcm.closeTime,
               txHash |-> row.Lcm.txs[row.TxIndex].hash,
               ret |-> ret]
      next == NextVisit(s.rows, s.row, s.event + 1)
  IN  IF ~ret
      THEN Stop(s, call)
      ELSE IF next.row > Len(s.rows)
      THEN ScanDone([s EXCEPT !.visited = Append(s.visited, call)], NoErr)
      ELSE [s EXCEPT !.visited = Append(s.visited, call),
                     !.row = next.row, !.event = next.event]

GetEventsVisit ==
  /\ scan.pc = "scanning"
  /\ \E ret \in BOOLEAN :
       LET s == Visit(scan, ret)
       IN  scan' = IF s.pc = "scanning" /\ s.row > Len(s.rows)
                   THEN ScanDone(s, NoErr) ELSE s
  /\ UNCHANGED << storeVars, resp, callVars >>

\* The requests of the readers.
StartCursors == { Cursor(l, t, e) : l \in 1..2, t \in 0..2, e \in 0..1 }
EndCursors == { Cursor(l, 0, 0) : l \in {2, MaxLedger + 1} }
ContractFilters == { {}, {"c1"}, {"c1", "c2"} }

GetEvents ==
  \E start \in StartCursors, end \in EndCursors,
     contractIDs \in ContractFilters, dbErr \in BOOLEAN :
    GetEventsSelect(CursorRange(start, end), contractIDs, dbErr)

\* ---------------------------------------------------------- GetTransaction
HexDigits == << "0", "1", "2", "3", "4", "5", "6", "7",
                "8", "9", "a", "b", "c", "d", "e", "f" >>

\* hex.EncodeToString: two lower-case digits per byte.
RECURSIVE HexEncode(_)
HexEncode(bytes) ==
  IF bytes = << >>
  THEN << >>
  ELSE << HexDigits[(Head(bytes) \div 16) + 1], HexDigits[(Head(bytes) % 16) + 1] >>
       \o HexEncode(Tail(bytes))

UpperHex == << "A", "B", "C", "D", "E", "F" >>

\* The characters of the requests.
Alphabet == { HexDigits[d] : d \in 1..16 } \cup { UpperHex[d] : d \in 1..6 }
            \cup { " ", "o", "z" }

\* The value of each character as a hex digit of either case, 16 for a
\* character that is none.
reverseHexTable ==
  [ch \in Alphabet |->
     IF \E d \in 1..16 : HexDigits[d] = ch
     THEN (CHOOSE d \in 1..16 : HexDigits[d] = ch) - 1
     ELSE IF \E d \in 1..6 : UpperHex[d] = ch
     THEN 9 + (CHOOSE d \in 1..6 : UpperHex[d] = ch)
     ELSE 16]

FromHexChar(ch) == reverseHexTable[ch]

\* hex.DecodeString: the bytes, or the error (<< >>: none) naming the first
\* invalid character.
HexDecode(str) ==
  LET val == [k \in 1..Len(str) |-> FromHexChar(str[k])]
      bad == { k \in 1..Len(str) : val[k] > 15 }
  IN  IF bad /= {}
      THEN [err |-> << "encoding/hex: invalid byte: ",
                       str[CHOOSE k \in bad : \A j \in bad : k <= j] >>,
            bytes |-> << >>]
      ELSE IF Len(str) % 2 = 1
      THEN [err |-> << "encoding/hex: odd length hex string" >>, bytes |-> << >>]
      ELSE [err |-> << >>,
            bytes |-> [k \in 1..(Len(str) \div 2) |-> val[2 * k - 1] * 16 + val[2 * k]]]

\* No error, as a value of the error type of the handlers.
NilError == [code |-> 0, message |-> << >>]

\* The JSON-RPC code of invalid parameters.
InvalidParams == -32602

\* The text of an error: [<code>] <detail>.
ErrorString(e) == << "[", e.code, "] " >> \o e.message

\* The input validation with the hex check made first.
ValidateHashHexFirst(hash) ==
  IF HexDecode(hash).err /= << >>
  THEN [code |-> InvalidParams,
        message |-> << "incorrect hash: " >> \o HexDecode(hash).err]
  ELSE IF Len(hash) /= 2 * HashBytes
  THEN [code |-> InvalidParams,
        message |-> << "unexpected hash length (", Len(hash), ")" >>]
  ELSE NilError

\* The input validation of GetTransaction: NoErr, or the BadInput error.
ValidateHash(hash) ==
  IF Len(hash) /= 2 * HashBytes
  THEN [code |-> InvalidParams,
        message |-> << "unexpected hash length (", Len(hash), ")" >>]
  ELSE IF HexDecode(hash).err /= << >>
  THEN [code |-> InvalidParams,
        message |-> << "incorrect hash: " >> \o HexDecode(hash).err]
  ELSE NilError

\* xdr.MarshalBase64: an encoding that keeps distinct values distinct.
MarshalBase64(x) == << "base64", x >>

SetMax(S) == CHOOSE x \in S : \A y \in S : y <= x
SetMin(S) == CHOOSE x \in S : \A y \in S : x <= y

\* The bounds of the ledger store, all zero while it is empty.
GetLedgerRange(ledgersT) ==
  IF DOMAIN ledgersT = {}
  THEN [LatestLedger |-> 0, LatestLedgerCloseTime |-> 0,
        OldestLedger |-> 0, OldestLedgerCloseTime |-> 0]
  ELSE [LatestLedger |-> SetMax(DOMAIN ledgersT),
        LatestLedgerCloseTime |-> ledgersT[SetMax(DOMAIN ledgersT)].closeTime,
        OldestLedger |-> SetMin(DOMAIN ledgersT),
        OldestLedgerCloseTime |-> ledgersT[SetMin(DOMAIN ledgersT)].closeTime]

\* The rows of the transaction index for the hash whose ledger is stored.
LookupTransaction(bytes, ledgersT, transactionsT) ==
  { t \in transactionsT :
      HashBytesOf(t.hash) = bytes /\ t.ledger_sequence \in DOMAIN ledgersT }

EmptyTxFields ==
  [ApplicationOrder |-> 0, FeeBump |-> FALSE, EnvelopeXdr |-> "",
   ResultXdr |-> "", ResultMetaXdr |-> "", Ledger |-> 0,
   LedgerCloseTime |-> 0, DiagnosticEventsXDR |-> << >>]

\* A NOT_FOUND response that leaves the store bounds out.
NotFoundResponseBare(range) ==
  [Status |-> "NOT_FOUND",
   LatestLedger |-> 0, LatestLedgerCloseTime |-> 0,
   OldestLedger |-> 0, OldestLedgerCloseTime |-> 0,
   tx |-> EmptyTxFields]

NotFoundResponse(range) ==
  [Status |-> "NOT_FOUND",
   LatestLedger |-> range.LatestLedger,
   LatestLedgerCloseTime |-> range.LatestLedgerCloseTime,
   OldestLedger |-> range.OldestLedger,
   OldestLedgerCloseTime |-> range.OldestLedgerCloseTime,
   tx |-> EmptyTxFields]

\* The transaction-specific fields taken from the latest ledger instead of
\* the ledger of the row.
TxFieldsOfLatest(lcm, row, range) ==
  LET tx == lcm.txs[row.application_order]
  IN  [ApplicationOrder |-> row.application_order,
       FeeBump |-> tx.envelope.feeBump,
       EnvelopeXdr |-> MarshalBase64(tx.envelope),
       ResultXdr |-> MarshalBase64(tx.result),
       ResultMetaXdr |-> MarshalBase64(tx.events),
       Ledger |-> range.LatestLedger,
       LedgerCloseTime |-> range.LatestLedgerCloseTime,
       DiagnosticEventsXDR |->
         [k \in 1..Len(tx.events) |-> MarshalBase64(tx.events[k])]]

\* The transaction-specific fields of a response, from the LCM of the row.
TxFields(lcm, row, range) ==
  LET tx == lcm.txs[row.application_order]
  IN  [ApplicationOrder |-> row.application_order,
       FeeBump |-> tx.envelope.feeBump,
       EnvelopeXdr |-> MarshalBase64(tx.envelope),
       ResultXdr |-> MarshalBase64(tx.result),
       ResultMetaXdr |-> MarshalBase64(tx.events),
       Ledger |-> lcm.sequence,
       LedgerCloseTime |-> lcm.closeTime,
       DiagnosticEventsXDR |->
         [k \in 1..Len(tx.events) |-> MarshalBase64(tx.events[k])]]

FoundResponse(lcm, row, range) ==
  [Status |-> IF Successful(lcm.txs[row.application_order].result)
              THEN "SUCCESS" ELSE "FAILED",
   LatestLedger |-> range.LatestLedger,
   LatestLedgerCloseTime |-> range.LatestLedgerCloseTime,
   OldestLedger |-> range.OldestLedger,
   OldestLedgerCloseTime |-> range.OldestLedgerCloseTime,
   tx |-> TxFields(lcm, row, range)]

NoResponse == [Status |-> ""]

\* GetTransaction on the given tables: the error, whether the index was
\* looked up, the response.
GetTransactionIn(hash, ledgersT, transactionsT) ==
  LET err == ValidateHash(hash)
  IN  IF err /= NilError
      THEN [err |-> err, lookup |-> FALSE, response |-> NoResponse]
      ELSE
       LET found == LookupTransaction(HexDecode(hash).bytes, ledgersT, transactionsT)
           range == GetLedgerRange(ledgersT)
           row == CHOOSE t \in found : TRUE
       IN  [err |-> NilError,
            lookup |-> TRUE,
            response |-> IF found = {}
                         THEN NotFoundResponse(range)
                         ELSE FoundResponse(ledgersT[row.ledger_sequence], row, range)]

GetTransaction(hash) == GetTransactionIn(hash, ledgers, transactions)

\* The hashes the readers ask for: too short, not hex (alone and together
\* with a wrong length), well formed and never ingested, and the hash of
\* every transaction that may be ingested.
HashInputs ==
  { << "a", "b" >>,
    << "z", "z" >>,
    << "f", "o", "o" >> \o Repeat(" ", 2 * HashBytes - 3),
    Repeat("a", 2 * HashBytes),
    Repeat("a", 2 * HashBytes + 1) }
  \cup { HexEncode(HashBytesOf(txHash(acctSeq(l, i)))) : l \in 1..MaxLedger, i \in 1..MaxTxs }

GetTransactionCall ==
  /\ resp = NoResp
  /\ \E hash \in HashInputs :
       resp' = [hash |-> hash] @@ GetTransaction(hash)
  /\ UNCHANGED << storeVars, scan, callVars >>

\* --------------------------------------------------------------- migration
firstLedger == 2

\* The migration the factory of newEventTableMigration builds when it is
\* called with the latest ledger of the store.  Both operands are uint32 and
\* the subtraction is made under latest > window only.
newEventTableMigration(window, latest) ==
  [firstLedger |-> IF latest > window THEN latest - window ELSE firstLedger,
   lastLedger |-> latest,
   writer |-> [stmtCache |-> "tx", db |-> "db"]]

ApplicableRange(e) ==
  [FirstLedgerSeq |-> e.firstLedger, LastLedgerSeq |-> e.lastLedger]

Apply(e, meta, failAt) == InsertEvents(e.writer, meta, failAt)

\* The sequences of a set of ledgers in ascending order.
RECURSIVE Ascending(_)
Ascending(S) ==
  IF S = {} THEN << >>
  ELSE LET m == CHOOSE x \in S : \A y \in S : x <= y
       IN  << m >> \o Ascending(S \ {m})

\* The ledgers the runner applies a migration to: its applicable range
\* intersected with the bounds of the ledger store, in ascending order.
MigrationLedgers(e) ==
  Ascending({ s \in DOMAIN ledgers :
                /\ s >= ApplicableRange(e).FirstLedgerSeq
                /\ s <= ApplicableRange(e).LastLedgerSeq })

\* The runner starts the event-table migration on a store whose events
\* table is empty, in a transaction of its own.  One migration is followed
\* per behaviour, begun in any state the writer left the store in.
MigrationStart ==
  /\ migration.pc = "Pending"
  /\ NoReaderYet
  /\ latestLedger >= 1
  /\ LET e == newEventTableMigration(retentionWindow, latestLedger)
     IN  migration' = [pc |-> "Running", e |-> e, todo |-> MigrationLedgers(e),
                       applied |-> << >>, reapplied |-> FALSE]
  /\ events' = << >>
  /\ UNCHANGED << ledgers, transactions, latestLedger, retentionWindow,
                  pendingTrim, lastIngest, scan, resp, callVars >>

\* Apply on the next LCM of the range; an error fails the migration and
\* rolls its transaction back.
MigrationApply ==
  /\ migration.pc = "Running"
  /\ migration.todo /= << >>
  /\ \E failAt \in 0..MaxTxs :
       LET s == Head(migration.todo)
           r == Apply(migration.e, ledgers[s], failAt)
       IN  /\ failAt /= 0 => r.err /= NoErr
           /\ IF r.err /= NoErr
              THEN /\ migration' = [migration EXCEPT !.pc = "Failed"]
                   /\ events' = << >>
              ELSE /\ migration' = [migration EXCEPT
                                      !.todo = Tail(migration.todo),
                                      !.applied = Append(migration.applied, s)]
                   /\ events' = events \o r.rows
  /\ UNCHANGED << ledgers, transactions, latestLedger, retentionWindow,
                  pendingTrim, lastIngest, scan, resp, callVars >>

\* Apply once more on the LCM applied last, within the same transaction.
MigrationReapply ==
  /\ migration.pc = "Running"
  /\ migration.applied /= << >>
  /\ ~migration.reapplied
  /\ LET s == migration.applied[Len(migration.applied)]
         r == Apply(migration.e, ledgers[s], 0)
     IN  /\ migration' = [migration EXCEPT
                            !.applied = Append(migration.applied, s),
                            !.reapplied = TRUE]
         /\ events' = events \o r.rows
  /\ UNCHANGED << ledgers, transactions, latestLedger, retentionWindow,
                  pendingTrim, lastIngest, scan, resp, callVars >>

\* The runner commits the migration once the range is exhausted.
MigrationCommit ==
  /\ migration.pc = "Running"
  /\ migration.todo = << >>
  /\ migration' = [migration EXCEPT !.pc = "Completed"]
  /\ UNCHANGED << ledgers, events, transactions, latestLedger, retentionWindow,
                  pendingTrim, lastIngest, scan, resp, callVars >>

\* ------------------------------------------------------ calls of a reader
\* The handler NewEventReader builds: no statement cache.
NewEventReader == [stmtCache |-> NULL, db |-> "db"]

\* InsertEvents called on the handler of a reader, with any LCM; the rows
\* of the statements it executed are in the events table.
ReaderInsertEvents ==
  /\ NoReaderYet
  /\ ~handlerCall.made
  /\ \E seq \in 1..MaxLedger, shape \in LcmShapes :
       LET r == InsertEvents(NewEventReader, txMeta(seq, shape), 0)
       IN  /\ events' = events \o r.rows
           /\ handlerCall' = [err |-> r.err, made |-> TRUE,
                              txCount |-> CountTransactions(txMeta(seq, shape))]
  /\ UNCHANGED << ledgers, transactions, latestLedger, retentionWindow,
                  pendingTrim, lastIngest, migration, scan, resp, ctx >>

\* GetEvents over every ledger, without filter, on a database that answers.
GetEventsFromFirst ==
  /\ ~handlerCall.made
  /\ \E end \in EndCursors :
       GetEventsSelect(CursorRange(Cursor(1, 0, 0), end), {}, FALSE)

\* The caller cancels the context of the GetEvents call while the rows are
\* gone through; calls is the number of calls of f made so far.
Cancel ==
  /\ scan.pc = "scanning"
  /\ ~ctx.cancelled
  /\ ctx' = [cancelled |-> TRUE, calls |-> Len(scan.visited)]
  /\ UNCHANGED << storeVars, scan, resp, handlerCall >>

\* ------------------------------------------------------------------- specs
IdleScan == [pc |-> "idle"]

\* No migration was created yet.
NoMigration == [pc |-> "Pending"]

\* context.Background(): a context that is not cancelled.
Background == [cancelled |-> FALSE, calls |-> 0]

\* No InsertEvents call was made on a handler of its own.
NoCall == [err |-> NoErr, made |-> FALSE, txCount |-> 0]

Init ==
  /\ ledgers = << >>
  /\ events = << >>
  /\ transactions = {}
  /\ latestLedger = 0
  /\ retentionWindow \in 1..MaxWindow
  /\ pendingTrim = {}
  /\ lastIngest = [seq |-> 0, failed |-> FALSE, execs |-> 0]
  /\ scan = IdleScan
  /\ resp = NoResp
  /\ migration = NoMigration
  /\ ctx = Background
  /\ handlerCall = NoCall

Next ==
  \/ IngestLedger
  \/ TrimEvents
  \/ TrimTransactions
  \/ TrimLedgers
  \/ GetEvents
  \/ GetEventsVisit

Spec == Init /\ [][Next]_vars

\* The writer with the readers of the transaction index.
NextTx ==
  \/ IngestLedger
  \/ TrimEvents
  \/ TrimTransactions
  \/ TrimLedgers
  \/ GetTransactionCall

SpecTx == Init /\ [][NextTx]_vars

\* The writer up to the start-up that runs the event-table migration.
NextMigration ==
  \/ migration.pc = "Pending" /\ IngestLedger
  \/ migration.pc = "Pending" /\ TrimEvents
  \/ migration.pc = "Pending" /\ TrimTransactions
  \/ migration.pc = "Pending" /\ TrimLedgers
  \/ MigrationStart
  \/ MigrationApply
  \/ MigrationReapply
  \/ MigrationCommit

SpecMigration == Init /\ [][NextMigration]_vars

\* The writer with a reader that calls GetEvents under a context it may
\* cancel, or InsertEvents on its own handler.
NextReader ==
  \/ ~handlerCall.made /\ IngestLedger
  \/ ~handlerCall.made /\ TrimEvents
  \/ ~handlerCall.made /\ TrimTransactions
  \/ ~handlerCall.made /\ TrimLedgers
  \/ ReaderInsertEvents
  \/ GetEventsFromFirst
  \/ GetEventsVisit
  \/ Cancel

SpecReader == Init /\ [][NextReader]_vars

\* ------------------------------------------------------------------ claims
CursorLess(a, b) ==
  \/ a.Ledger < b.Ledger
  \/ a.Ledger = b.Ledger /\ a.Tx < b.Tx
  \/ a.Ledger = b.Ledger /\ a.Tx = b.Tx /\ a.Event < b.Event

CursorLessEq(a, b) == a = b \/ CursorLess(a, b)

Called == scan.pc /= "idle"

\* The diagnostic events of transaction t of the stored ledger l.
StoredEvents(l, t) == ledgers[l].txs[t].events

\* C1: the cursors GetEvents passes to the visitor are strictly increasing in
\* (ledger, tx, event) order: none is passed twice, none after a larger one.
C1_CursorsStrictlyIncreasing ==
  Called =>
    \A i, j \in 1..Len(scan.visited) :
      i < j => CursorLess(scan.visited[i].cursor, scan.visited[j].cursor)

\* C2: every cursor c GetEvents passes to the visitor lies in the range of
\* the call: Start <= c < End.
C2_RangeContainment ==
  Called =>
    \A i \in 1..Len(scan.visited) :
      /\ CursorLessEq(scan.cursorRange.Start, scan.visited[i].cursor)
      /\ CursorLess(scan.visited[i].cursor, scan.cursorRange.End)

\* C3: with a non-empty contractIDs filter, every event passed to the visitor
\* has a contract id of the filter.
C3_ContractFilterSound ==
  (Called /\ scan.contractIDs /= {}) =>
    \A i \in 1..Len(scan.visited) :
      scan.visited[i].contractId \in scan.contractIDs

\* C4: once the visitor returned false, GetEvents calls it no more and
\* returns nil: a call that returned false is the last call of a finished,
\* successful GetEvents.
C4_StopsWhenVisitorReturnsFalse ==
  Called =>
    \A i \in 1..Len(scan.visited) :
      ~scan.visited[i].ret =>
        /\ i = Len(scan.visited)
        /\ scan.pc = "done"
        /\ scan.err = NoErr

\* The visitor returned false on the first of the two events of a
\* transaction, with a second event and rows of a later ledger left.
C4_Witness ==
  /\ scan.pc = "done"
  /\ scan.err = NoErr
  /\ Len(scan.visited) = 1
  /\ ~scan.visited[1].ret
  /\ scan.visited[1].cursor.Event = 0
  /\ Len(StoredEvents(scan.visited[1].cursor.Ledger, scan.visited[1].cursor.Tx)) = 2
  /\ \E i \in MatchingRows(scan.cursorRange, scan.contractIDs) :
       events[i].ledger_sequence > scan.visited[1].cursor.Ledger

\* A step of trimEvents(latestLedger, retentionWindow).
TrimEventsStep == "events" \in pendingTrim /\ "events" \notin pendingTrim'

\* The first ledger the retention window keeps once ledgers 1..latestLedger
\* were ingested.
OldestRetained ==
  IF latestLedger - retentionWindow + 1 > 1
  THEN latestLedger - retentionWindow + 1
  ELSE 1

C5_TrimPost ==
  TrimEventsStep =>
    IF latestLedger + 1 > retentionWindow
    THEN events' = SelectSeq(events,
                     LAMBDA r : r.ledger_sequence >= latestLedger + 1 - retentionWindow)
    ELSE events' = events

C5_AfterTrim ==
  "events" \notin pendingTrim =>
    /\ \A i \in 1..Len(events) :
         /\ events[i].ledger_sequence >= OldestRetained
         /\ events[i].ledger_sequence <= latestLedger
    /\ Called => \A i \in 1..Len(scan.visited) :
                   scan.visited[i].cursor.Ledger >= OldestRetained

\* C5: trimEvents(latest, W) with latest + 1 > W deletes the events rows of
\* ledgers below latest + 1 - W and keeps every other row, and leaves the
\* table unchanged when latest + 1 <= W; so after ledgers 1..N were ingested,
\* each followed by its trim, events rows exist only for ledgers
\* max(1, N - W + 1)..N and GetEvents presents no event of a trimmed ledger.
C5_Retention == [][C5_TrimPost]_vars /\ [](C5_AfterTrim)

\* trimEvents deleted the rows of a ledger still in the ledgers table and
\* kept the rows of a later one, and GetEvents went over the whole range.
C5_Witness ==
  /\ pendingTrim = {"ledgers"}
  /\ latestLedger + 1 > retentionWindow
  /\ \E l \in DOMAIN ledgers :
       /\ l < latestLedger + 1 - retentionWindow
       /\ \E t \in 1..Len(ledgers[l].txs) :
            Successful(ledgers[l].txs[t].result) /\ Len(StoredEvents(l, t)) > 0
  /\ Len(events) > 0
  /\ scan.pc = "done"
  /\ scan.cursorRange.Start = Cursor(1, 0, 0)
  /\ scan.contractIDs = {}
  /\ Len(scan.visited) > 0

\* C6: after an ingest of ledger N that failed at some step, the ledgers,
\* transactions and events tables hold no row of ledger N and the
\* latest-ingested marker is not N.
C6_AtomicIngest ==
  lastIngest.failed =>
    /\ lastIngest.seq \notin DOMAIN ledgers
    /\ \A t \in transactions : t.ledger_sequence /= lastIngest.seq
    /\ \A i \in 1..Len(events) : events[i].ledger_sequence /= lastIngest.seq
    /\ latestLedger /= lastIngest.seq

\* InsertEvents failed on its second insert statement, after the first one
\* was executed, in the ingest of a ledger that follows a committed one.
C6_Witness ==
  /\ lastIngest.failed
  /\ lastIngest.execs = 2
  /\ lastIngest.seq = latestLedger + 1
  /\ latestLedger >= 1

\* A step that makes the GetTransaction call: resp' is its outcome in the
\* state the step starts from.
CallStep == resp = NoResp /\ resp' /= NoResp

IsHexChar(ch) ==
  ch \in { "0", "1", "2", "3", "4", "5", "6", "7", "8", "9",
           "a", "b", "c", "d", "e", "f", "A", "B", "C", "D", "E", "F" }

WellFormed(hash) == Len(hash) = 64 /\ \A k \in 1..Len(hash) : IsHexChar(hash[k])

\* Ledger l is within the retention window.
Retained(l) == l \in DOMAIN ledgers /\ l + retentionWindow >= latestLedger + 1

C7_CallPost ==
  CallStep =>
    \A l \in DOMAIN ledgers : \A i \in 1..Len(ledgers[l].txs) :
      (Retained(l) /\ resp'.hash = HexEncode(HashBytesOf(ledgers[l].txs[i].hash))) =>
        /\ resp'.err = NilError
        /\ resp'.response.Status \in {"SUCCESS", "FAILED"}
        /\ resp'.response.Status = "SUCCESS" <=>
             ledgers[l].txs[i].result.Code = "txSUCCESS"
        /\ resp'.response.tx.Ledger = l
        /\ resp'.response.tx.LedgerCloseTime = ledgers[l].closeTime
        /\ resp'.response.tx.ApplicationOrder = i

\* C7: GetTransaction on the hash of a transaction of a retained ledger,
\* successful or failed, returns no error, the ledger sequence, close time
\* and 1-based application order of its ingestion, and SUCCESS exactly when
\* its result code is success, FAILED otherwise, never NOT_FOUND.
C7_HashRoundTrip == [][C7_CallPost]_vars

\* The call found the failed transaction of a ledger after later ledgers
\* were ingested.
C7_Witness ==
  /\ resp /= NoResp
  /\ resp.err = NilError
  /\ resp.response.Status = "FAILED"
  /\ resp.response.tx.ApplicationOrder = 2
  /\ resp.response.tx.Ledger = 2
  /\ resp.response.LatestLedger = 3

\* C8: a hash of a length N other than 64 fails with
\* "[-32602] unexpected hash length (N)", whatever its characters; a hash of
\* 64 characters that is not hex fails with "[-32602] incorrect hash: " and
\* the detail of the first invalid character; neither looks the index up.
C8_BadInput ==
  resp /= NoResp =>
    /\ Len(resp.hash) /= 64 =>
         /\ ErrorString(resp.err) =
              << "[", -32602, "] ", "unexpected hash length (", Len(resp.hash), ")" >>
         /\ ~resp.lookup
    /\ (Len(resp.hash) = 64 /\ ~WellFormed(resp.hash)) =>
         /\ ErrorString(resp.err) =
              << "[", -32602, "] ", "incorrect hash: ", "encoding/hex: invalid byte: ",
                 resp.hash[CHOOSE k \in 1..64 :
                             /\ ~IsHexChar(resp.hash[k])
                             /\ \A j \in 1..(k - 1) : IsHexChar(resp.hash[j])] >>
         /\ ~resp.lookup

\* The request had a wrong length and characters that are not hex.
C8_Witness ==
  /\ resp /= NoResp
  /\ resp.hash = << "z", "z" >>
  /\ resp.err.code = -32602
  /\ ~resp.lookup

C9_CallPost ==
  (/\ CallStep
   /\ WellFormed(resp'.hash)
   /\ \A t \in transactions : HexEncode(HashBytesOf(t.hash)) /= resp'.hash) =>
    /\ resp'.err = NilError
    /\ resp'.response.Status = "NOT_FOUND"
    /\ IF DOMAIN ledgers = {}
       THEN /\ resp'.response.LatestLedger = 0
            /\ resp'.response.LatestLedgerCloseTime = 0
            /\ resp'.response.OldestLedger = 0
            /\ resp'.response.OldestLedgerCloseTime = 0
       ELSE /\ resp'.response.LatestLedger = SetMax(DOMAIN ledgers)
            /\ resp'.response.LatestLedgerCloseTime = ledgers[SetMax(DOMAIN ledgers)].closeTime
            /\ resp'.response.OldestLedger = SetMin(DOMAIN ledgers)
            /\ resp'.response.OldestLedgerCloseTime = ledgers[SetMin(DOMAIN ledgers)].closeTime
    /\ resp'.response.tx =
         [ApplicationOrder |-> 0, FeeBump |-> FALSE, EnvelopeXdr |-> "",
          ResultXdr |-> "", ResultMetaXdr |-> "", Ledger |-> 0,
          LedgerCloseTime |-> 0, DiagnosticEventsXDR |-> << >>]

\* C9: GetTransaction on a well-formed hash that is not in the transaction
\* index returns no error and status NOT_FOUND, the latest and oldest ledger
\* fields those of the bounds of the ledger store (zero on an empty store)
\* and every transaction-specific field empty.
C9_NotFound == [][C9_CallPost]_vars

\* A never-ingested hash was asked for on a store of two ledgers or more.
C9_Witness ==
  /\ resp /= NoResp
  /\ resp.hash = Repeat("a", 64)
  /\ resp.err = NilError
  /\ resp.response.Status = "NOT_FOUND"
  /\ resp.response.LatestLedger >= 2
  /\ resp.response.OldestLedger >= 1

\* A step that commits the ingest of a further ledger.
CommitStep == latestLedger' = latestLedger + 1

Found(r) == r.err = NilError /\ r.response.Status \in {"SUCCESS", "FAILED"}

C10_CommitFrame ==
  CommitStep =>
    \A t \in transactions :
      LET h == HexEncode(HashBytesOf(t.hash))
          before == GetTransaction(h)
          after == GetTransactionIn(h, ledgers', transactions')
      IN  Found(before) =>
            /\ after.err = NilError
            /\ after.response =
                 [before.response EXCEPT
                    !.LatestLedger = latestLedger',
                    !.LatestLedgerCloseTime = ledgers'[latestLedger'].closeTime]
            /\ after.response.OldestLedger = SetMin(DOMAIN ledgers')
            /\ after.response.OldestLedgerCloseTime =
                 ledgers'[SetMin(DOMAIN ledgers')].closeTime

\* C10: the commit of a further ledger changes nothing in the
\* transaction-specific fields of the response for a transaction already
\* found; latestLedger and latestLedgerCloseTime become those of the new
\* ledger, oldestLedger and oldestLedgerCloseTime stay those of the lowest
\* ledger of the store.
C10_IngestFrame == [][C10_CommitFrame]_vars

\* The call found a transaction of ledger 1 after ledger 2 was ingested.
C10_Witness ==
  /\ resp /= NoResp
  /\ resp.err = NilError
  /\ resp.response.Status = "SUCCESS"
  /\ resp.response.tx.Ledger = 1
  /\ resp.response.LatestLedger = 2
  /\ resp.response.OldestLedger = 1

\* The events table a steady-state ingest of the given ledgers of the store
\* produces from rows: InsertEvents in the ingest transaction of each, in
\* ascending order, each followed by its trim.
RECURSIVE SteadyStateEvents(_, _)
SteadyStateEvents(todo, rows) ==
  IF todo = << >>
  THEN rows
  ELSE SteadyStateEvents(
         Tail(todo),
         trimEvents(rows \o InsertEvents(IngestWriter, ledgers[Head(todo)], 0).rows,
                    Head(todo), retentionWindow))

\* C11: the event-table migration run on an empty events table over the
\* ledgers of the store leaves the events table a fresh steady-state ingest
\* of the same ledgers with the same retention window produces.
C11_MigrationEquivalence ==
  (migration.pc = "Completed" /\ ~migration.reapplied) =>
    events = SteadyStateEvents(Ascending(DOMAIN ledgers), << >>)

\* The rows of a table as a multiset.
BagOfRows(rows) ==
  [r \in { rows[i] : i \in 1..Len(rows) } |->
     Cardinality({ i \in 1..Len(rows) : rows[i] = r })]

\* A step that applies the migration a second time to the LCM applied last.
ReapplyStep ==
  /\ migration.pc = "Running"
  /\ migration'.pc = "Running"
  /\ ~migration.reapplied
  /\ migration'.reapplied

C12_ReapplyPost == ReapplyStep => BagOfRows(events') = BagOfRows(events)

\* C12: Apply on an LCM the migration was already applied to, within the
\* same transaction, leaves the events table, as a multiset of rows, as it
\* was after the first application.
C12_MigrationIdempotent == [][C12_ReapplyPost]_vars

\* A migration was created: its range is that of the factory's call.
Created == migration.pc /= "Pending"

\* C17: the applicable range of the event-table migration is [first, latest]
\* with first = max(2, latest - retentionWindow), never below firstLedger = 2.
C17_ApplicableRange ==
  Created =>
    /\ ApplicableRange(migration.e).LastLedgerSeq = latestLedger
    /\ ApplicableRange(migration.e).FirstLedgerSeq =
         (IF latestLedger - retentionWindow > 2
          THEN latestLedger - retentionWindow ELSE 2)
    /\ ApplicableRange(migration.e).FirstLedgerSeq >= 2

\* C18: every ledger of the applicable range of the migration is at or above
\* the cutoff latest + 1 - retentionWindow of trimEvents for the same latest
\* ledger and window, and the trim deletes no row the migration wrote.
C18_RangeWithinRetention ==
  Created =>
    /\ \A s \in ApplicableRange(migration.e).FirstLedgerSeq ..
                ApplicableRange(migration.e).LastLedgerSeq :
         latestLedger + 1 > retentionWindow =>
           s >= latestLedger + 1 - retentionWindow
    /\ trimEvents(events, latestLedger, retentionWindow) = events

\* C13: once the context is cancelled during the scan, GetEvents calls the
\* visitor no more.
C13_NoCallAfterCancel ==
  ctx.cancelled => Len(scan.visited) = ctx.calls

\* A step that calls InsertEvents on the handler of a reader.
HandlerCallStep == ~handlerCall.made /\ handlerCall'.made

\* A step of a GetEvents call: its query or a call of the visitor.
GetEventsStep == scan' /= scan

C20_CallPost ==
  /\ HandlerCallStep => (handlerCall'.err /= NoErr /\ events' = events)
  /\ GetEventsStep => (events' = events /\ ledgers' = ledgers)

\* C20: InsertEvents on a handler without statement cache, as NewEventReader
\* builds it, returns an error and leaves the events table unchanged for
\* every LCM, one without transactions included; and no step of GetEvents
\* changes the events or the ledgers table.
C20_ReaderCannotWrite == [][C20_CallPost]_vars

\* InsertEvents was called on a reader's handler with an LCM without
\* transactions, on a store that holds event rows.
C20_Witness ==
  /\ handlerCall.made
  /\ handlerCall.txCount = 0
  /\ handlerCall.err /= NoErr
  /\ Len(events) > 0

\* The events rows within the bounds and the filter of the call.
RowsOfCall ==
  { i \in 1..Len(events) :
      /\ events[i].ledger_sequence >= scan.cursorRange.Start.Ledger
      /\ events[i].application_order >= scan.cursorRange.Start.Tx
      /\ events[i].ledger_sequence < scan.cursorRange.End.Ledger
      /\ scan.contractIDs /= {} => events[i].contract_id \in scan.contractIDs }

\* C14: whatever the trim has deleted so far, in either order of the ledgers
\* and the events table, GetEvents returns no error for an events row whose
\* LCM is gone and presents no event of a ledger whose LCM is absent; the
\* row is skipped, the transactions of the other rows are still presented.
C14_TrimRace ==
  Called =>
    /\ scan.err \in {NoErr, "db read failed"}
    /\ scan.err /= NoErr => scan.visited = << >>
    /\ \A i \in 1..Len(scan.visited) :
         scan.visited[i].cursor.Ledger \in DOMAIN ledgers
    /\ (/\ scan.pc = "done"
        /\ scan.err = NoErr
        /\ \A i \in 1..Len(scan.visited) : scan.visited[i].ret) =>
         \A i \in RowsOfCall :
           events[i].ledger_sequence \in DOMAIN ledgers =>
             \E k \in 1..Len(scan.visited) :
               /\ scan.visited[k].cursor.Ledger = events[i].ledger_sequence
               /\ scan.visited[k].cursor.Tx = events[i].application_order

\* The trim had deleted a ledger and not yet its events rows when GetEvents
\* ran over them: the call ended without error and presented events.
C14_Witness ==
  /\ scan.pc = "done"
  /\ scan.err = NoErr
  /\ scan.visited /= << >>
  /\ "ledgers" \notin pendingTrim
  /\ "events" \in pendingTrim
  /\ \E i \in RowsOfCall : events[i].ledger_sequence \notin DOMAIN ledgers

\* The number of calls of the visitor with cursor c.
Presented(c) ==
  Cardinality({ k \in 1..Len(scan.visited) : scan.visited[k].cursor = c })

\* Transaction t of the stored ledger l is in the event index.
Indexed(l, t) ==
  \E i \in 1..Len(events) :
    events[i].ledger_sequence = l /\ events[i].application_order = t

\* C15: with a visitor that always returns true and no contract filter,
\* GetEvents presents every diagnostic event of every indexed transaction
\* whose cursor (ledger, 1-based transaction index, 0-based event index)
\* lies in [Start, End) exactly once.
C15_ExactlyOnce ==
  (/\ scan.pc = "done"
   /\ scan.err = NoErr
   /\ scan.contractIDs = {}
   /\ \A k \in 1..Len(scan.visited) : scan.visited[k].ret) =>
    \A l \in DOMAIN ledgers : \A t \in 1..Len(ledgers[l].txs) :
      \A e \in 0..(Len(StoredEvents(l, t)) - 1) :
        (/\ Indexed(l, t)
         /\ CursorLessEq(scan.cursorRange.Start, Cursor(l, t, e))
         /\ CursorLess(Cursor(l, t, e), scan.cursorRange.End)) =>
          Presented(Cursor(l, t, e)) = 1

\* The rows the table has after the step beyond those it had before.
Added == SubSeq(events', Len(events) + 1, Len(events'))

\* The (transaction, event) positions of the diagnostic events of the
\* successful transactions of an LCM.
IndexedPositions(lcm) ==
  UNION { { << t, k >> : k \in 1..Len(lcm.txs[t].events) } :
          t \in { u \in 1..Len(lcm.txs) : lcm.txs[u].result.Code = "txSUCCESS" } }

C16_CommitPost ==
  CommitStep =>
    LET lcm == ledgers'[latestLedger']
        pos == IndexedPositions(lcm)
    IN  /\ Len(events') >= Len(events)
        /\ SubSeq(events', 1, Len(events)) = events
        /\ Len(Added) = Cardinality(pos)
        /\ \A p \in pos :
             LET row == [ledger_sequence |-> lcm.sequence,
                         application_order |-> p[1],
                         contract_id |-> lcm.txs[p[1]].events[p[2]].contractId,
                         event_type |-> lcm.txs[p[1]].events[p[2]].type]
             IN  Cardinality({ i \in 1..Len(Added) : Added[i] = row }) =
                 Cardinality({ q \in pos :
                                 /\ q[1] = p[1]
                                 /\ lcm.txs[q[1]].events[q[2]] =
                                      lcm.txs[p[1]].events[p[2]] })

\* C16: InsertEvents on an LCM adds exactly one row per diagnostic event of
\* each successful transaction, carrying the ledger sequence, the
\* transaction's index, the event's contract id (null when it has none) and
\* its type, adds none for a failed transaction, a transaction without
\* events or an LCM without transactions, and changes no existing row.
C16_InsertEventsRows == [][C16_CommitPost]_vars

\* The ledger ingested last, after an earlier one left rows in the table,
\* held a transaction with two events, a failed one with an event and a
\* successful one without events: two rows were added.
C16_Witness ==
  /\ latestLedger >= 2
  /\ ~lastIngest.failed
  /\ lastIngest.seq = latestLedger
  /\ Len(ledgers[latestLedger].txs) = 3
  /\ \E i \in 1..Len(events) : events[i].ledger_sequence < latestLedger
  /\ Cardinality({ i \in 1..Len(events) :
                     events[i].ledger_sequence = latestLedger }) = 2

\* C19 as stated: at most one insert statement is executed per InsertEvents
\* call, whatever the number of event-emitting transactions of the LCM.
C19_SingleBatch == lastIngest.execs <= 1

\* The successful transactions of an LCM with a diagnostic event or more.
Emitting(lcm) ==
  { t \in 1..Len(lcm.txs) :
      lcm.txs[t].result.Code = "txSUCCESS" /\ Len(lcm.txs[t].events) > 0 }

\* C19, amended: an InsertEvents call that returns nil has executed one
\* insert statement per successful transaction of the LCM that emitted an
\* event, none for the other transactions.
C19_OneStatementPerTransaction ==
  (lastIngest.seq >= 1 /\ ~lastIngest.failed) =>
    lastIngest.execs = Cardinality(Emitting(ledgers[lastIngest.seq]))

\* The ledger ingested last held two event-emitting transactions: two
\* insert statements were executed.
C19_Witness ==
  /\ lastIngest.seq >= 1
  /\ ~lastIngest.failed
  /\ lastIngest.execs = 2
  /\ Cardinality(Emitting(ledgers[lastIngest.seq])) = 2

====
